---------------------------- MODULE Spec2Model ----------------------------
(***************************************************************************)
(* Ledger and settlement engine of the expense tracker (src/src/main.py):  *)
(* class ExpenseSplitter with its users, groups and expenses, the three    *)
(* split operations, the balance computation and simplify_debts.           *)
(*                                                                         *)
(* Numbers.  The program computes with Python floats.  Here an amount is   *)
(* an integer count of thousandths of a currency unit and a percentage an  *)
(* integer count of thousandths of a percent, so the program's 0.01        *)
(* tolerance is 10 units and 100.0 percent is 100000 units.  A float       *)
(* division is modelled as the division rounded to the nearest unit: the   *)
(* result of an operation is a representable value close to the exact one, *)
(* with an error far below the tolerance, as it is for floats.             *)
(*                                                                         *)
(* Identifiers.  The program draws uuid4 ids; the model numbers the users, *)
(* groups and expenses in creation order.  None is NoGroup.                *)
(***************************************************************************)
EXTENDS Integers, Sequences, FiniteSets, TLC

\* ---- bounds of the model
MaxUsers == 2
MaxGroups == 1
MaxExpenses == 1
MaxLen == 2
\* simplify_debts as a function: users and entries per user of its argument
MaxParties == 3
MaxEntries == 1

\* ---- program constants
Tol == 10
Hundred == 10000 * Tol
NoGroup == 0

UserIds == 1..MaxUsers
GroupIds == 1..MaxGroups
ExpenseIds == 1..MaxExpenses

\* ---- inputs the operations are called with
AmountInputs == {0, 1000}
\* split calculator (SpecSplit): values on both sides of every check
ExactAmounts == {-500, 500, 510, 1500}
Percentages == {-50000, 50000, 50010, 150000}
\* whole ledger (Spec): shares that pass the checks
LedgerAmounts == {400, 600}
LedgerPercentages == {50000}
\* simplify_debts as a function: the signed amounts of a balance map
BalanceAmounts == {-30, -14, 10, 30}

\* users, groups, expenses: the three dicts of ExpenseSplitter
\* call: the operation called last and how it ended
\* balances, transactions: an argument handed to simplify_debts and the list
\* it returned (SpecSimplify)
\* sequences over S of length 0..n
SeqsUpTo(S, n) == UNION {[1..k -> S] : k \in 0..n}

\* a dict literal: items with pairwise distinct keys, in insertion order
Dicts(K, V, n) ==
    {d \in SeqsUpTo(K \X V, n) :
        \A i, j \in 1..Len(d) : i # j => d[i][1] # d[j][1]}

\* the argument lists and dicts of the split operations
EqualInputs == SeqsUpTo(UserIds, MaxLen)
ExactInputs == Dicts(UserIds, ExactAmounts, MaxLen)
PercentageInputs == Dicts(UserIds, Percentages, MaxLen)
LedgerExactInputs == Dicts(UserIds, LedgerAmounts, MaxLen)
LedgerPercentageInputs == Dicts(UserIds, LedgerPercentages, MaxLen)

VARIABLES users, groups, expenses, call, balances, transactions

vars == <<users, groups, expenses, call, balances, transactions>>

\* ---- arithmetic helpers
Abs(x) == IF x < 0 THEN -x ELSE x

Min(a, b) == IF a <= b THEN a ELSE b

\* float division a / b (b > 0): nearest representable value
FDiv(a, b) == (2 * a + b) \div (2 * b)

RECURSIVE SumSeq(_)
SumSeq(s) == IF s = <<>> THEN 0 ELSE Head(s) + SumSeq(Tail(s))

\* values of a dict given as a sequence of <<key, value>> items
Values(items) == [i \in 1..Len(items) |-> items[i][2]]

Keys(items) == [i \in 1..Len(items) |-> items[i][1]]

Range(s) == {s[i] : i \in 1..Len(s)}

\* ---- dataclasses
\* Split.__post_init__ raises ValueError for a negative amount
SplitRaises(amount) == amount < 0

\* Split(...) when it does not raise: an out-of-range percentage becomes 0
Split(uid, amount, percentage) ==
    [user_id |-> uid,
     amount |-> amount,
     percentage |-> IF 0 <= percentage /\ percentage <= Hundred
                    THEN percentage ELSE 0]

\* Expense(...) as add_expense constructs it
Expense(amount, paid_by, group_id) ==
    [amount |-> amount, paid_by |-> paid_by, group_id |-> group_id,
     split_type |-> "EQUAL", splits |-> <<>>]

\* Group(...) as create_group leaves it
Group(created_by) ==
    [members |-> <<created_by>>, created_by |-> created_by]

Outcome(op, eid, res) == [op |-> op, eid |-> eid, res |-> res]

Init ==
    /\ users = {}
    /\ groups = <<>>
    /\ expenses = <<>>
    /\ call = Outcome("init", 0, "ok")
    /\ balances = <<>>
    /\ transactions = <<>>

\* ---- user and group management
create_user(nameOk) ==
    IF ~nameOk
    THEN /\ call' = Outcome("create_user", 0, "ValueError")
         /\ UNCHANGED <<users, groups, expenses, balances, transactions>>
    ELSE /\ users' = users \cup {Cardinality(users) + 1}
         /\ call' = Outcome("create_user", 0, "ok")
         /\ UNCHANGED <<groups, expenses, balances, transactions>>

create_group(nameOk, created_by) ==
    IF created_by \notin users \/ ~nameOk
    THEN /\ call' = Outcome("create_group", 0, "ValueError")
         /\ UNCHANGED <<users, groups, expenses, balances, transactions>>
    ELSE /\ groups' = Append(groups, Group(created_by))
         /\ call' = Outcome("create_group", 0, "ok")
         /\ UNCHANGED <<users, expenses, balances, transactions>>

add_user_to_group(group_id, user_id) ==
    IF group_id \notin DOMAIN groups \/ user_id \notin users
    THEN /\ call' = Outcome("add_user_to_group", 0, "False")
         /\ UNCHANGED <<users, groups, expenses, balances, transactions>>
    ELSE /\ groups' =
              IF user_id \in Range(groups[group_id].members)
              THEN groups
              ELSE [groups EXCEPT ![group_id].members = Append(@, user_id)]
         /\ call' = Outcome("add_user_to_group", 0, "ok")
         /\ UNCHANGED <<users, expenses, balances, transactions>>

\* list.remove: drops the first occurrence
RECURSIVE Remove(_, _)
Remove(s, x) ==
    IF s = <<>> THEN <<>>
    ELSE IF Head(s) = x THEN Tail(s)
    ELSE <<Head(s)>> \o Remove(Tail(s), x)

remove_user_from_group(group_id, user_id) ==
    IF group_id \notin DOMAIN groups
    THEN /\ call' = Outcome("remove_user_from_group", 0, "False")
         /\ UNCHANGED <<users, groups, expenses, balances, transactions>>
    ELSE /\ groups' = [groups EXCEPT ![group_id].members = Remove(@, user_id)]
         /\ call' = Outcome("remove_user_from_group", 0, "ok")
         /\ UNCHANGED <<users, expenses, balances, transactions>>

\* ---- expense management
\* the group looked up in the dict of the users
GroupMissingAmongUsers(group_id) ==
    group_id # NoGroup /\ group_id \notin users

\* if group_id and group_id not in self.groups
GroupMissing(group_id) ==
    group_id # NoGroup /\ group_id \notin DOMAIN groups

add_expense(descOk, amount, paid_by, group_id) ==
    IF \/ paid_by \notin users
       \/ GroupMissing(group_id)
       \/ amount <= 0
       \/ ~descOk
    THEN /\ call' = Outcome("add_expense", 0, "ValueError")
         /\ UNCHANGED <<users, groups, expenses, balances, transactions>>
    ELSE /\ expenses' = Append(expenses, Expense(amount, paid_by, group_id))
         /\ call' = Outcome("add_expense", Len(expenses) + 1, "ok")
         /\ UNCHANGED <<users, groups, balances, transactions>>

\* what a split operation returns or raises (res) and the expenses dict it
\* leaves behind
Result(res, exps) == [res |-> res, expenses |-> exps]

split_equally_result(expense_id, user_ids) ==
    IF expense_id \notin DOMAIN expenses
       \/ ~(\A i \in 1..Len(user_ids) : user_ids[i] \in users)
    THEN Result("False", expenses)
    ELSE IF Len(user_ids) = 0
    THEN Result("ZeroDivisionError", expenses)
    ELSE LET split_amount == FDiv(expenses[expense_id].amount, Len(user_ids))
         IN Result("ok",
                   [expenses EXCEPT
                      ![expense_id].split_type = "EQUAL",
                      ![expense_id].splits =
                          [i \in 1..Len(user_ids) |->
                              Split(user_ids[i], split_amount, 0)]])

split_expense_equally(expense_id, user_ids) ==
    LET r == split_equally_result(expense_id, user_ids)
    IN /\ expenses' = r.expenses
       /\ call' = Outcome("split_expense_equally", expense_id, r.res)
       /\ UNCHANGED <<users, groups, balances, transactions>>

\* the comparison without abs(): a total below the expense amount passes
ExactMismatchNoAbs(total_splits, amount) == total_splits - amount > Tol

\* abs(total_splits - expense.amount) > 0.01
ExactMismatch(total_splits, amount) == Abs(total_splits - amount) > Tol

split_exact_result(expense_id, splits) ==
    IF expense_id \notin DOMAIN expenses
       \/ ~(\A i \in 1..Len(splits) : splits[i][1] \in users)
    THEN Result("False", expenses)
    ELSE IF ExactMismatch(SumSeq(Values(splits)), expenses[expense_id].amount)
    THEN Result("Mismatch", expenses)
    ELSE IF \E i \in 1..Len(splits) : SplitRaises(splits[i][2])
    THEN \* the tag is assigned before the list of Splits is built
         Result("ValueError",
                [expenses EXCEPT ![expense_id].split_type = "EXACT"])
    ELSE Result("ok",
                [expenses EXCEPT
                   ![expense_id].split_type = "EXACT",
                   ![expense_id].splits =
                       [i \in 1..Len(splits) |->
                           Split(splits[i][1], splits[i][2], 0)]])

split_expense_exact(expense_id, splits) ==
    LET r == split_exact_result(expense_id, splits)
    IN /\ expenses' = r.expenses
       /\ call' = Outcome("split_expense_exact", expense_id, r.res)
       /\ UNCHANGED <<users, groups, balances, transactions>>

\* abs(total_percentage - 100.0) > 0.01
PercentageMismatch(total_percentage) == Abs(total_percentage - Hundred) > Tol

\* the share without the division by 100.0
PercentageAmountNoScale(percentage, amount) ==
    FDiv(percentage * amount, Hundred \div 100)

\* (percentage / 100.0) * expense.amount
PercentageAmount(percentage, amount) == FDiv(percentage * amount, Hundred)

\* the Splits appended by the loop of split_expense_percentage before it
\* ends or Split raises
RECURSIVE PercentageSplits(_, _)
PercentageSplits(percentages, amount) ==
    IF percentages = <<>> THEN <<>>
    ELSE LET uid == Head(percentages)[1]
             share == PercentageAmount(Head(percentages)[2], amount)
         IN IF SplitRaises(share) THEN <<>>
            ELSE <<Split(uid, share, Head(percentages)[2])>>
                 \o PercentageSplits(Tail(percentages), amount)

split_percentage_result(expense_id, percentages) ==
    IF expense_id \notin DOMAIN expenses
       \/ ~(\A i \in 1..Len(percentages) : percentages[i][1] \in users)
    THEN Result("False", expenses)
    ELSE IF PercentageMismatch(SumSeq(Values(percentages)))
    THEN Result("Mismatch", expenses)
    ELSE \* the tag is assigned and the list emptied before the loop
         LET built == PercentageSplits(percentages,
                                       expenses[expense_id].amount)
         IN Result(IF Len(built) = Len(percentages) THEN "ok"
                   ELSE "ValueError",
                   [expenses EXCEPT
                      ![expense_id].split_type = "PERCENTAGE",
                      ![expense_id].splits = built])

split_expense_percentage(expense_id, percentages) ==
    LET r == split_percentage_result(expense_id, percentages)
    IN /\ expenses' = r.expenses
       /\ call' = Outcome("split_expense_percentage", expense_id, r.res)
       /\ UNCHANGED <<users, groups, balances, transactions>>

\* ---- balance calculations
\* the update written with = in place of +=
AddToOverwrite(dict, k, v) ==
    [x \in DOMAIN dict \cup {k} |-> IF x = k THEN v ELSE dict[x]]

\* balances[k] += v, creating the key at 0.0 first
AddTo(dict, k, v) ==
    IF k \in DOMAIN dict THEN [dict EXCEPT ![k] = @ + v]
    ELSE [x \in DOMAIN dict \cup {k} |-> IF x = k THEN v ELSE dict[x]]

\* the empty dict
EmptyDict == [x \in {} |-> 0]

\* amount of the first split of the user, 0.0 when there is none
RECURSIVE UserOwes(_, _)
UserOwes(splits, user_id) ==
    IF splits = <<>> THEN 0
    ELSE IF Head(splits).user_id = user_id THEN Head(splits).amount
    ELSE UserOwes(Tail(splits), user_id)

\* the payer's loop: every split of another user is added under that user
RECURSIVE OthersOwe(_, _, _)
OthersOwe(splits, user_id, dict) ==
    IF splits = <<>> THEN dict
    ELSE OthersOwe(Tail(splits), user_id,
                   IF Head(splits).user_id # user_id
                   THEN AddTo(dict, Head(splits).user_id, Head(splits).amount)
                   ELSE dict)

\* the loop over self.expenses.values(), in insertion order
RECURSIVE BalanceLoop(_, _, _, _)
BalanceLoop(exps, user_id, group_id, dict) ==
    IF exps = <<>> THEN dict
    ELSE LET expense == Head(exps)
             user_owes == UserOwes(expense.splits, user_id)
             after ==
                 IF group_id # NoGroup /\ expense.group_id # group_id
                 THEN dict
                 ELSE IF expense.splits = <<>> THEN dict
                 ELSE IF expense.paid_by = user_id
                 THEN OthersOwe(expense.splits, user_id, dict)
                 ELSE IF user_owes > 0
                 THEN AddTo(dict, expense.paid_by, -user_owes)
                 ELSE dict
         IN BalanceLoop(Tail(exps), user_id, group_id, after)

calculate_user_balance(user_id, group_id) ==
    IF user_id \notin users THEN EmptyDict
    ELSE BalanceLoop(expenses, user_id, group_id, EmptyDict)

\* a dict of dicts as its items <<member_id, balance dict>>, in insertion
\* order (the member list holds no id twice)
get_group_balances(group_id) ==
    IF group_id \notin DOMAIN groups THEN <<>>
    ELSE LET members == groups[group_id].members
         IN [i \in 1..Len(members) |->
                <<members[i], calculate_user_balance(members[i], group_id)>>]

\* ---- settlement
\* sum(d.values())
RECURSIVE SumValues(_)
SumValues(dict) ==
    IF DOMAIN dict = {} THEN 0
    ELSE LET k == CHOOSE x \in DOMAIN dict : TRUE
         IN dict[k] + SumValues([x \in DOMAIN dict \ {k} |-> dict[x]])

\* round(x, 2) for x >= 0: the nearest multiple of 0.01 (a tie, which the
\* inputs of this model never produce, goes to the even one)
Round2(x) ==
    LET q == x \div Tol
        r == x % Tol
    IN IF 2 * r < Tol THEN q * Tol
       ELSE IF 2 * r > Tol THEN (q + 1) * Tol
       ELSE IF q % 2 = 0 THEN q * Tol ELSE (q + 1) * Tol

NetBalances(items) ==
    [i \in 1..Len(items) |-> <<items[i][1], SumValues(items[i][2])>>]

\* the creditor filter with the sign of the tolerance slipped
IsCreditorSignSlip(amount) == amount > -Tol

\* the creditor filter without the tolerance
IsCreditorNoTol(amount) == amount > 0

IsCreditor(amount) == amount > Tol

IsDebtor(amount) == amount < -Tol

\* {uid: amount for ... if amount > 0.01}
RECURSIVE Creditors(_)
Creditors(net) ==
    IF net = <<>> THEN <<>>
    ELSE (IF IsCreditor(Head(net)[2]) THEN <<Head(net)>> ELSE <<>>)
         \o Creditors(Tail(net))

\* {uid: -amount for ... if amount < -0.01}
RECURSIVE Debtors(_)
Debtors(net) ==
    IF net = <<>> THEN <<>>
    ELSE (IF IsDebtor(Head(net)[2])
          THEN <<(<<Head(net)[1], -Head(net)[2]>>)>> ELSE <<>>)
         \o Debtors(Tail(net))

\* the deletion test with the sign of the tolerance slipped
CreditSettledSignSlip(credit) == credit <= -Tol

\* if creditors[creditor_id] <= 0.01
CreditSettled(credit) == credit <= Tol

\* the break test with the sign of the tolerance slipped
DebtSettledSignSlip(remaining_debt) == remaining_debt <= -Tol

\* if remaining_debt <= 0.01
DebtSettled(remaining_debt) == remaining_debt <= Tol

\* creditors[creditor_id] -= payment, then del when it is <= 0.01
RECURSIVE PayInto(_, _, _)
PayInto(creditors, creditor_id, payment) ==
    IF creditors = <<>> THEN <<>>
    ELSE IF Head(creditors)[1] = creditor_id
    THEN (IF CreditSettled(Head(creditors)[2] - payment) THEN <<>>
          ELSE <<(<<creditor_id, Head(creditors)[2] - payment>>)>>)
         \o Tail(creditors)
    ELSE <<Head(creditors)>> \o PayInto(Tail(creditors), creditor_id, payment)

\* the inner loop over list(creditors.items()) for one debtor
RECURSIVE PayCreditors(_, _, _, _, _)
PayCreditors(debtor_id, remaining_debt, snapshot, creditors, txs) ==
    IF snapshot = <<>> \/ DebtSettled(remaining_debt)
    THEN [creditors |-> creditors, transactions |-> txs]
    ELSE LET creditor_id == Head(snapshot)[1]
             credit_amount == Head(snapshot)[2]
             payment == Min(remaining_debt, credit_amount)
         IN PayCreditors(debtor_id, remaining_debt - payment, Tail(snapshot),
                         PayInto(creditors, creditor_id, payment),
                         Append(txs, [from |-> debtor_id, to |-> creditor_id,
                                      amount |-> Round2(payment)]))

\* the outer loop over debtors.items()
RECURSIVE MatchDebtors(_, _, _)
MatchDebtors(debtors, creditors, txs) ==
    IF debtors = <<>> THEN txs
    ELSE LET paid == PayCreditors(Head(debtors)[1], Head(debtors)[2],
                                  creditors, creditors, txs)
         IN MatchDebtors(Tail(debtors), paid.creditors, paid.transactions)

simplify_debts(items) ==
    LET net_balances == NetBalances(items)
    IN MatchDebtors(Debtors(net_balances), Creditors(net_balances), <<>>)

\* the inputs of an operation that creates an entry: none once the dict
\* holds as many entries as the model allows
Capped(count, bound, inputs) == IF count < bound THEN inputs ELSE {}

\* ---- the whole ledger: every mutating operation of ExpenseSplitter, with
\* at most MaxUsers users, MaxGroups groups and MaxExpenses expenses
Next ==
    \/ \E nameOk \in Capped(Cardinality(users), MaxUsers, BOOLEAN) :
          create_user(nameOk)
    \/ \E nameOk \in Capped(Len(groups), MaxGroups, BOOLEAN), u \in UserIds :
          create_group(nameOk, u)
    \/ \E g \in GroupIds, u \in UserIds : add_user_to_group(g, u)
    \/ \E g \in GroupIds, u \in UserIds : remove_user_from_group(g, u)
    \/ \E descOk \in Capped(Len(expenses), MaxExpenses, BOOLEAN),
          a \in AmountInputs, u \in UserIds, g \in GroupIds \cup {NoGroup} :
          add_expense(descOk, a, u, g)
    \/ \E e \in ExpenseIds, ids \in EqualInputs :
          split_expense_equally(e, ids)
    \/ \E e \in ExpenseIds, s \in LedgerExactInputs :
          split_expense_exact(e, s)
    \/ \E e \in ExpenseIds, p \in LedgerPercentageInputs :
          split_expense_percentage(e, p)

Spec == Init /\ [][Next]_vars

\* ---- the split calculator: the three split operations on one expense.
\* It starts in the ledger states that create_user and add_expense lead to
\* (the users created so far and one unsplit expense paid by one of them)
\* and calls the split operations on this expense with inputs that pass and
\* that fail each check.
InitSplit ==
    /\ users \in {1..k : k \in 1..MaxUsers}
    /\ groups = <<>>
    /\ expenses \in {<<Expense(a, u, NoGroup)>> :
                        a \in {x \in AmountInputs : x > 0}, u \in users}
    /\ call = Outcome("add_expense", 1, "ok")
    /\ balances = <<>>
    /\ transactions = <<>>

NextSplit ==
    \/ \E e \in DOMAIN expenses, ids \in EqualInputs :
          split_expense_equally(e, ids)
    \/ \E e \in DOMAIN expenses, s \in ExactInputs :
          split_expense_exact(e, s)
    \/ \E e \in DOMAIN expenses, p \in PercentageInputs :
          split_expense_percentage(e, p)

SpecSplit == InitSplit /\ [][NextSplit]_vars

\* ---- simplify_debts as a function of its argument
Parties == 1..MaxParties

\* the balance dicts a user can come with: at most MaxEntries entries.
\* simplify_debts reads only the values of a user's dict, so the keys are
\* taken to be the first other users
BalanceDicts(u) ==
    UNION {[{x \in 1..(k + 1) : x # u /\ (x <= k \/ u <= k)}
              -> BalanceAmounts] : k \in 0..MaxEntries}

\* the argument is built one user at a time: user n comes with any of its
\* balance dicts, so every balance map of the users 1..n is reached
InitSimplify ==
    /\ users = {}
    /\ groups = <<>>
    /\ expenses = <<>>
    /\ call = Outcome("init", 0, "ok")
    /\ balances = <<>>
    /\ transactions = <<>>

extend_balances(dict) ==
    /\ call.op = "init"
    /\ Len(balances) < MaxParties
    /\ dict \in BalanceDicts(Len(balances) + 1)
    /\ balances' = Append(balances, <<Len(balances) + 1, dict>>)
    /\ UNCHANGED <<users, groups, expenses, call, transactions>>

simplify_debts_call ==
    /\ call.op = "init"
    /\ transactions' = simplify_debts(balances)
    /\ call' = Outcome("simplify_debts", 0, "ok")
    /\ UNCHANGED <<users, groups, expenses, balances>>

NextSimplify ==
    \/ \E u \in Parties : \E dict \in BalanceDicts(u) : extend_balances(dict)
    \/ simplify_debts_call

SpecSimplify == InitSimplify /\ [][NextSimplify]_vars

\* ---- the example of the module's __main__: three users, one group of
\* the three, three expenses of the group split equally among the three, and
\* the settlement of the group.  The ids are the numbers of the users and of
\* the group in creation order.
Alice == 1
Bob == 2
Charlie == 3
Roommates == 1

ExampleUsers == {Alice, Bob, Charlie}

\* amount and payer of Groceries, Electricity Bill and Internet
ExampleExpenses == {<<120000, Alice>>, <<90000, Bob>>, <<60000, Charlie>>}

\* group_balances = app.get_group_balances(group.id), then
\* app.simplify_debts(group_balances)
settle_group(group_id) ==
    /\ balances' = get_group_balances(group_id)
    /\ transactions' = simplify_debts(get_group_balances(group_id))
    /\ call' = Outcome("simplify_debts", 0, "ok")
    /\ UNCHANGED <<users, groups, expenses>>

\* the settlement is the last call of the example
Settled == call.op = "simplify_debts"

\* the calls of the example in any order, each expense added once, until the
\* settlement is computed
NextExample ==
    \/ /\ ~Settled
       /\ \E nameOk \in Capped(Cardinality(users), Cardinality(ExampleUsers),
                               {TRUE}) : create_user(nameOk)
    \/ /\ ~Settled
       /\ \E nameOk \in Capped(Len(groups), Roommates, {TRUE}) :
             create_group(nameOk, Alice)
    \/ /\ ~Settled
       /\ \E u \in {Bob, Charlie} : add_user_to_group(Roommates, u)
    \/ /\ ~Settled
       /\ \E x \in {y \in ExampleExpenses :
                      \A e \in DOMAIN expenses : expenses[e].amount # y[1]} :
             add_expense(TRUE, x[1], x[2], Roommates)
    \/ /\ ~Settled
       /\ \E e \in 1..Cardinality(ExampleExpenses) :
             split_expense_equally(e, <<Alice, Bob, Charlie>>)
    \/ /\ ~Settled
       /\ settle_group(Roommates)

SpecExample == Init /\ [][NextExample]_vars

\* ---- the reference checks: the operations that take the id of a user,
\* of a group or of an expense (the group and expense management and the
\* three splits), called with ids that exist and with ids that do not.  It starts after the first create_user, so that the other user
\* ids stay unknown; the groups and the expenses are created on the way, so
\* that their ids are unknown first and known later.
InitRefs ==
    /\ users = {1}
    /\ groups = <<>>
    /\ expenses = <<>>
    /\ call = Outcome("create_user", 0, "ok")
    /\ balances = <<>>
    /\ transactions = <<>>

\* a participant alone, with the whole amount or all 100 percent
RefEqualInputs == {<<u>> : u \in UserIds}
RefExactInputs == {<<(<<u, a>>)>> : u \in UserIds, a \in AmountInputs \ {0}}
RefPercentageInputs == {<<(<<u, Hundred>>)>> : u \in UserIds}

NextRefs ==
    \/ \E nameOk \in Capped(Len(groups), MaxGroups, {TRUE}), u \in UserIds :
          create_group(nameOk, u)
    \/ \E g \in GroupIds, u \in UserIds : add_user_to_group(g, u)
    \/ \E g \in GroupIds, u \in UserIds : remove_user_from_group(g, u)
    \/ \E descOk \in Capped(Len(expenses), MaxExpenses, {TRUE}),
          a \in AmountInputs, u \in UserIds, g \in GroupIds \cup {NoGroup} :
          add_expense(descOk, a, u, g)
    \/ \E e \in ExpenseIds, ids \in RefEqualInputs :
          split_expense_equally(e, ids)
    \/ \E e \in ExpenseIds, s \in RefExactInputs :
          split_expense_exact(e, s)
    \/ \E e \in ExpenseIds, p \in RefPercentageInputs :
          split_expense_percentage(e, p)

SpecRefs == InitRefs /\ [][NextRefs]_vars

\* ======================= properties =======================
SplitOps ==
    {"split_expense_equally", "split_expense_exact",
     "split_expense_percentage"}

\* sum of the amounts, and of the percentages, of a split list
RECURSIVE SumAmounts(_)
SumAmounts(splits) ==
    IF splits = <<>> THEN 0
    ELSE Head(splits).amount + SumAmounts(Tail(splits))

RECURSIVE SumPercentages(_)
SumPercentages(splits) ==
    IF splits = <<>> THEN 0
    ELSE Head(splits).percentage + SumPercentages(Tail(splits))

SplitUsers(splits) == {splits[i].user_id : i \in 1..Len(splits)}

\* net balance of user number i of a balance map
NetOf(items, i) == SumValues(items[i][2])

RECURSIVE SumNets(_)
SumNets(items) ==
    IF items = <<>> THEN 0
    ELSE SumValues(Head(items)[2]) + SumNets(Tail(items))

\* what the transactions move out of, and into, a user
RECURSIVE PaidBy(_, _)
PaidBy(txs, u) ==
    IF txs = <<>> THEN 0
    ELSE (IF Head(txs).from = u THEN Head(txs).amount ELSE 0)
         + PaidBy(Tail(txs), u)

RECURSIVE PaidTo(_, _)
PaidTo(txs, u) ==
    IF txs = <<>> THEN 0
    ELSE (IF Head(txs).to = u THEN Head(txs).amount ELSE 0)
         + PaidTo(Tail(txs), u)

NumDebtors(items) ==
    Cardinality({i \in 1..Len(items) : NetOf(items, i) < -Tol})

NumCreditors(items) ==
    Cardinality({i \in 1..Len(items) : NetOf(items, i) > Tol})

\* C1 (zero-sum): in every reachable ledger state, for every group the net
\* balances of the users in get_group_balances(group) sum to 0 within 0.01.
C1_ZeroSum ==
    \A g \in DOMAIN groups : Abs(SumNets(get_group_balances(g))) <= Tol

\* C2 (split conservation): every expense with a non-empty split list has
\* split amounts that sum to the expense amount within 0.01.
C2_SplitConservation ==
    \A e \in DOMAIN expenses :
        expenses[e].splits # <<>> =>
            Abs(SumAmounts(expenses[e].splits) - expenses[e].amount) <= Tol

\* C3 (all-or-nothing): a split operation that does not succeed leaves the
\* split list and the split_type tag of every expense as they were.
C3_AllOrNothing ==
    [][(call'.op \in SplitOps /\ call'.res # "ok") => expenses' = expenses]_vars

\* C4 (settlement conservation): for the balances of every group, the
\* transactions of simplify_debts out of each debtor sum to its net debt and
\* those into each creditor sum to its net credit, within 0.01.
C4_SettlementConservation ==
    \A g \in DOMAIN groups :
        LET items == get_group_balances(g)
            txs == simplify_debts(items)
        IN \A i \in 1..Len(items) :
              /\ NetOf(items, i) < -Tol =>
                    Abs(PaidBy(txs, items[i][1]) + NetOf(items, i)) <= Tol
              /\ NetOf(items, i) > Tol =>
                    Abs(PaidTo(txs, items[i][1]) - NetOf(items, i)) <= Tol

\* C5 as stated (transaction count bound): for every balance map, the list
\* of simplify_debts has at most (debtors + creditors - 1) transactions.
C5_CountBoundAsStated ==
    call.op = "simplify_debts" =>
        Len(transactions) <= NumDebtors(balances) + NumCreditors(balances) - 1

\* C5 amended: with at least one debtor or creditor the list has at most
\* (debtors + creditors - 1) transactions, and with none it is empty.
C5_CountBound ==
    call.op = "simplify_debts" =>
        IF NumDebtors(balances) + NumCreditors(balances) = 0
        THEN Len(transactions) = 0
        ELSE Len(transactions)
                <= NumDebtors(balances) + NumCreditors(balances) - 1

\* the bound is met with two transactions
C5_Witness ==
    /\ call.op = "simplify_debts"
    /\ Len(transactions) = 2
    /\ NumDebtors(balances) + NumCreditors(balances) = 3

\* C6 (settled state): when every net balance is within 0.01 of 0, or no
\* creditor or no debtor is left by the 0.01 filter, simplify_debts returns
\* the empty list.
C6_SettledIsEmpty ==
    (/\ call.op = "simplify_debts"
     /\ \/ \A i \in 1..Len(balances) : Abs(NetOf(balances, i)) <= Tol
        \/ NumCreditors(balances) = 0
        \/ NumDebtors(balances) = 0)
    => transactions = <<>>

\* debtors but no creditor above the tolerance, and nothing to pay
C6_Witness ==
    /\ call.op = "simplify_debts"
    /\ NumDebtors(balances) >= 1
    /\ NumCreditors(balances) = 0
    /\ \E i \in 1..Len(balances) : NetOf(balances, i) = Tol
    /\ transactions = <<>>

\* the Split list the claim C7 expects of a percentage split
ExpectedPercentageSplits(percentages, amount) ==
    [i \in 1..Len(percentages) |->
        [user_id |-> percentages[i][1],
         amount |-> FDiv(percentages[i][2] * amount, Hundred),
         percentage |-> percentages[i][2]]]

\* a percentage split of an existing expense among existing users with
\* percentages summing to 100 within 0.01
PercentagesAddUp(e, p) ==
    /\ e \in DOMAIN expenses
    /\ \A i \in 1..Len(p) : p[i][1] \in users
    /\ Abs(SumSeq(Values(p)) - Hundred) <= Tol

\* the call succeeds and stores one split per given user with its share and
\* its declared percentage, leaving the other expenses alone
PercentageStored(e, p) ==
    LET r == split_percentage_result(e, p)
    IN /\ r.res = "ok"
       /\ r.expenses =
            [expenses EXCEPT
               ![e].split_type = "PERCENTAGE",
               ![e].splits = ExpectedPercentageSplits(p, expenses[e].amount)]

\* C7 as stated (percentage closure, success side): in every reachable
\* state, split_expense_percentage on an existing expense with existing users
\* and percentages summing to 100 within 0.01 succeeds, tags the expense
\* PERCENTAGE and stores one split per given user with amount =
\* percentage/100 * expense.amount and the declared percentage.
C7_PercentageClosureAsStated ==
    \A e \in ExpenseIds, p \in PercentageInputs :
        PercentagesAddUp(e, p) => PercentageStored(e, p)

\* C7 amended: the same, for percentages that each lie in [0, 100].
C7_PercentageClosure ==
    \A e \in ExpenseIds, p \in PercentageInputs :
        (/\ PercentagesAddUp(e, p)
         /\ \A i \in 1..Len(p) : 0 <= p[i][2] /\ p[i][2] <= Hundred)
            => PercentageStored(e, p)

\* a successful percentage split among two users, one share above the other
C7_Witness ==
    /\ call.op = "split_expense_percentage"
    /\ call.res = "ok"
    /\ LET splits == expenses[call.eid].splits
       IN /\ Len(splits) = 2
          /\ splits[1].percentage # splits[2].percentage
          /\ splits[1].percentage + splits[2].percentage = Hundred + Tol

\* C8 (mismatch rejection): in every reachable state, on an existing
\* expense with existing users, split_expense_exact with amounts summing to
\* more than 0.01 away from the expense amount, and
\* split_expense_percentage with percentages summing to more than 0.01 away
\* from 100, fail with the mismatch error and leave the expenses as they
\* were.
C8_MismatchRejected ==
    \A e \in DOMAIN expenses :
        /\ \A s \in ExactInputs :
              (/\ \A i \in 1..Len(s) : s[i][1] \in users
               /\ Abs(SumSeq(Values(s)) - expenses[e].amount) > Tol)
                  => split_exact_result(e, s) = Result("Mismatch", expenses)
        /\ \A p \in PercentageInputs :
              (/\ \A i \in 1..Len(p) : p[i][1] \in users
               /\ Abs(SumSeq(Values(p)) - Hundred) > Tol)
                  => split_percentage_result(e, p)
                        = Result("Mismatch", expenses)

\* an exact split was rejected for a mismatch on an expense that keeps the
\* two splits it had
C8_Witness ==
    /\ call.op = "split_expense_exact"
    /\ call.res = "Mismatch"
    /\ Len(expenses[call.eid].splits) = 2

\* C9 (stored percentages): every stored Split has amount >= 0 and a
\* percentage in [0, 100], and the percentages stored in an expense tagged
\* PERCENTAGE sum to 100 within 0.01.
C9_StoredPercentages ==
    \A e \in DOMAIN expenses :
        /\ \A i \in 1..Len(expenses[e].splits) :
              /\ expenses[e].splits[i].amount >= 0
              /\ 0 <= expenses[e].splits[i].percentage
              /\ expenses[e].splits[i].percentage <= Hundred
        /\ expenses[e].split_type = "PERCENTAGE" =>
              Abs(SumPercentages(expenses[e].splits) - Hundred) <= Tol

\* the split list of expense e comes out of a successful split operation of
\* this step, among the participants it was given
SplitAmongGiven(e) ==
    /\ call'.res = "ok"
    /\ call'.eid = e
    /\ \/ \E ids \in EqualInputs :
             /\ split_expense_equally(e, ids)
             /\ SplitUsers(expenses'[e].splits) \subseteq Range(ids)
       \/ \E s \in ExactInputs :
             /\ split_expense_exact(e, s)
             /\ SplitUsers(expenses'[e].splits) \subseteq Range(Keys(s))
       \/ \E p \in PercentageInputs :
             /\ split_expense_percentage(e, p)
             /\ SplitUsers(expenses'[e].splits) \subseteq Range(Keys(p))

\* C10 (split participants): no split list holds a user id twice, every
\* split's user id is an existing user, and it was among the participants
\* given to the last successful split operation on the expense (a step
\* either is such an operation or brings no new user into a split list).
C10_SplitParticipants ==
    /\ [](\A e \in DOMAIN expenses :
            /\ Cardinality(SplitUsers(expenses[e].splits))
                  = Len(expenses[e].splits)
            /\ SplitUsers(expenses[e].splits) \subseteq users)
    /\ [][\A e \in DOMAIN expenses' :
            \/ call'.op \in SplitOps /\ SplitAmongGiven(e)
            \/ SplitUsers(expenses'[e].splits) \subseteq
                  (IF e \in DOMAIN expenses
                   THEN SplitUsers(expenses[e].splits) ELSE {})]_vars

\* C11 (group membership): the member list of every group holds no user id
\* twice and holds the group's creator.
C11_GroupMembership ==
    \A g \in DOMAIN groups :
        /\ Cardinality(Range(groups[g].members)) = Len(groups[g].members)
        /\ groups[g].created_by \in Range(groups[g].members)

\* the scopes of a balance query: no group, or an existing group
Scopes == {NoGroup} \cup DOMAIN groups

\* dict.get(k, 0)
Lookup(dict, k) == IF k \in DOMAIN dict THEN dict[k] ELSE 0

\* C14 (unknown ids in queries): calculate_user_balance of a user id that
\* does not exist, and get_group_balances of a group id that does not exist,
\* give something else than the empty result {} that an existing user without
\* balances, or an existing group without members, gets.
C14_UnknownIdsReported ==
    /\ \A u \in UserIds \ users, g \in Scopes :
          calculate_user_balance(u, g) # EmptyDict
    /\ \A g \in GroupIds \ DOMAIN groups : get_group_balances(g) # <<>>

\* sum of the amounts of the splits of user u in a split list
RECURSIVE SumAmountsOf(_, _)
SumAmountsOf(splits, u) ==
    IF splits = <<>> THEN 0
    ELSE (IF Head(splits).user_id = u THEN Head(splits).amount ELSE 0)
         + SumAmountsOf(Tail(splits), u)

\* the balance of u towards v as the claim C15 defines it: over the expenses
\* in scope, v's split amounts in those paid by u minus u's split amounts in
\* those paid by v
RECURSIVE DefinedBalance(_, _, _, _)
DefinedBalance(exps, u, g, v) ==
    IF exps = <<>> THEN 0
    ELSE LET expense == Head(exps)
             inScope == /\ expense.splits # <<>>
                        /\ (g = NoGroup \/ expense.group_id = g)
         IN (IF inScope /\ expense.paid_by = u
             THEN SumAmountsOf(expense.splits, v) ELSE 0)
            - (IF inScope /\ expense.paid_by = v
               THEN SumAmountsOf(expense.splits, u) ELSE 0)
            + DefinedBalance(Tail(exps), u, g, v)

\* C15 (balance definition): for every existing user u, scope g and
\* counterparty v # u, calculate_user_balance(u, g)[v] (0 when absent) is the
\* sum of v's split amounts over the in-scope expenses paid by u minus the
\* sum of u's split amounts over the in-scope expenses paid by v.
C15_BalanceDefinition ==
    \A u \in users, g \in Scopes :
        \A v \in users \ {u} :
            Lookup(calculate_user_balance(u, g), v)
                = DefinedBalance(expenses, u, g, v)

\* C17 (pairwise antisymmetry): for any two existing users u, v and any one
\* scope, calculate_user_balance(u)[v] = -calculate_user_balance(v)[u] with an
\* absent key counted as 0, and u is no key of its own balance map.
C17_Antisymmetry ==
    \A u \in users, g \in Scopes :
        /\ u \notin DOMAIN calculate_user_balance(u, g)
        /\ \A v \in users :
              Lookup(calculate_user_balance(u, g), v)
                  = -Lookup(calculate_user_balance(v, g), u)

\* net balance of the user with id uid of a balance map
NetOfUser(items, uid) ==
    NetOf(items, CHOOSE i \in 1..Len(items) : items[i][1] = uid)

\* what each user of a balance map owes, and is owed, before any payment
DebtsOf(items) ==
    [u \in Range(Keys(items)) |->
        IF NetOfUser(items, u) < -Tol THEN -NetOfUser(items, u) ELSE 0]

CreditsOf(items) ==
    [u \in Range(Keys(items)) |->
        IF NetOfUser(items, u) > Tol THEN NetOfUser(items, u) ELSE 0]

\* the first user, in the order of the balance map, with more than 0.01
\* remaining (0 when there is none)
RECURSIVE FirstOpen(_, _)
FirstOpen(ids, remaining) ==
    IF ids = <<>> THEN 0
    ELSE IF remaining[Head(ids)] > Tol THEN Head(ids)
    ELSE FirstOpen(Tail(ids), remaining)

\* the transactions, replayed in order against the remaining debts and
\* credits: each is paid by the first debtor of the map with more than 0.01
\* of debt left, to the first creditor of the map with more than 0.01 of
\* credit left, and its amount is min(remaining debt, remaining credit),
\* rounded to cents
RECURSIVE GreedyReplay(_, _, _, _)
GreedyReplay(txs, ids, debt, credit) ==
    IF txs = <<>> THEN TRUE
    ELSE LET t == Head(txs)
             payment == IF debt[t.from] <= credit[t.to]
                        THEN debt[t.from] ELSE credit[t.to]
         IN /\ t.from = FirstOpen(ids, debt)
            /\ t.to = FirstOpen(ids, credit)
            /\ t.from \in DOMAIN debt
            /\ t.to \in DOMAIN credit
            /\ t.amount = Round2(payment)
            /\ GreedyReplay(Tail(txs), ids,
                            [debt EXCEPT ![t.from] = @ - payment],
                            [credit EXCEPT ![t.to] = @ - payment])

NumPaidBy(txs, u) == Cardinality({i \in 1..Len(txs) : txs[i].from = u})

NumPaidTo(txs, u) == Cardinality({i \in 1..Len(txs) : txs[i].to = u})

\* every transaction goes from a debtor to another user, a creditor, and no
\* pair of users occurs twice
DebtorsPayCreditors(items, txs) ==
    /\ \A i \in 1..Len(txs) :
          /\ NetOfUser(items, txs[i].from) < -Tol
          /\ NetOfUser(items, txs[i].to) > Tol
          /\ txs[i].from # txs[i].to
    /\ \A i, j \in 1..Len(txs) :
          (txs[i].from = txs[j].from /\ txs[i].to = txs[j].to) => i = j

ExampleLedger ==
    /\ ExampleUsers \subseteq users
    /\ Roommates \in DOMAIN groups
    /\ Range(groups[Roommates].members) = ExampleUsers
    /\ Len(expenses) = Cardinality(ExampleExpenses)
    /\ \A x \in ExampleExpenses : \E e \in DOMAIN expenses :
          /\ expenses[e].amount = x[1]
          /\ expenses[e].paid_by = x[2]
          /\ expenses[e].group_id = Roommates
          /\ expenses[e].split_type = "EQUAL"
          /\ Len(expenses[e].splits) = Cardinality(ExampleUsers)
          /\ SplitUsers(expenses[e].splits) = ExampleUsers

\* Expected simplifier output: {from: C, to: A, amount: 30.00}
ExampleSettlement ==
    <<[from |-> Charlie, to |-> Alice, amount |-> 30000]>>

\* C13 (worked example): with the ledger of the example the net balances of
\* the group are A = +30, B = 0, C = -30 and simplify_debts of the group's
\* balances returns exactly the one transaction from C to A of 30.00.
C13_WorkedExample ==
    ExampleLedger =>
        LET items == get_group_balances(Roommates)
        IN /\ NetOfUser(items, Alice) = 30000
           /\ NetOfUser(items, Bob) = 0
           /\ NetOfUser(items, Charlie) = -30000
           /\ simplify_debts(items) = ExampleSettlement
           /\ call.op = "simplify_debts" => transactions = ExampleSettlement

\* the settlement of the example has been computed
C13_Witness ==
    /\ ExampleLedger
    /\ call.op = "simplify_debts"
    /\ Len(transactions) = 1
    /\ Len(balances) = Cardinality(ExampleUsers)

\* the call of this step failed and changed none of the three dicts
Refused(res) ==
    /\ call'.res = res
    /\ UNCHANGED <<users, groups, expenses>>

\* every stored expense has amount > 0, an existing payer and no group or an
\* existing one
StoredExpensesValid ==
    \A e \in DOMAIN expenses :
        /\ expenses[e].amount > 0
        /\ expenses[e].paid_by \in users
        /\ expenses[e].group_id # NoGroup =>
              expenses[e].group_id \in DOMAIN groups

\* a step that calls a mutating operation with an unknown id, or add_expense
\* with a non-positive amount, reports the failure and changes nothing
InvalidInputRefused ==
    /\ \A descOk \in BOOLEAN, a \in AmountInputs, u \in UserIds,
          g \in GroupIds \cup {NoGroup} :
          (/\ u \notin users \/ (g # NoGroup /\ g \notin DOMAIN groups) \/ a <= 0
           /\ add_expense(descOk, a, u, g))
              => Refused("ValueError")
    /\ \A nameOk \in BOOLEAN, u \in UserIds \ users :
          create_group(nameOk, u) => Refused("ValueError")
    /\ \A g \in GroupIds, u \in UserIds :
          (/\ g \notin DOMAIN groups \/ u \notin users
           /\ add_user_to_group(g, u))
              => Refused("False")
    /\ \A e \in ExpenseIds, ids \in RefEqualInputs :
          (/\ e \notin DOMAIN expenses \/ ~(Range(ids) \subseteq users)
           /\ split_expense_equally(e, ids))
              => Refused("False")
    /\ \A e \in ExpenseIds, s \in RefExactInputs :
          (/\ e \notin DOMAIN expenses \/ ~(Range(Keys(s)) \subseteq users)
           /\ split_expense_exact(e, s))
              => Refused("False")
    /\ \A e \in ExpenseIds, p \in RefPercentageInputs :
          (/\ e \notin DOMAIN expenses \/ ~(Range(Keys(p)) \subseteq users)
           /\ split_expense_percentage(e, p))
              => Refused("False")

\* C12 (invalid input changes nothing): add_expense with an unknown payer, an
\* unknown group or a non-positive amount, create_group with an unknown
\* creator, add_user_to_group with an unknown group or user, and a split
\* operation with an unknown expense id or an unknown participant id report
\* failure (exception or False) and leave users, groups and expenses
\* unchanged; and every stored expense has amount > 0, an existing payer and,
\* if it has a group, an existing one.
C12_InvalidInputChangesNothing ==
    /\ []StoredExpensesValid
    /\ [][InvalidInputRefused]_vars

\* a split among an unknown participant was refused on an expense of a group
\* that keeps the split it had
C12_Witness ==
    /\ call.op \in SplitOps
    /\ call.res = "False"
    /\ call.eid \in DOMAIN expenses
    /\ expenses[call.eid].splits # <<>>
    /\ expenses[call.eid].group_id # NoGroup

=============================================================================
